---- MODULE Spec2Model ----
(***************************************************************************)
(* A model of rodio's WAV decoder (src/decoder/wav.rs) and of the sample   *)
(* converter adapter (src/source/samples_converter.rs).                    *)
(*                                                                         *)
(* The byte stream is a sequence of tokens: a junk token (bytes that are   *)
(* no RIFF/WAVE header), a header token (a well-formed RIFF/WAVE header up *)
(* to the start of the data chunk, carrying the declared WavSpec and the   *)
(* declared number of samples) and sample-word tokens.  hound's WavReader  *)
(* is the library the decoder drives; it is modelled by what the decoder   *)
(* relies on: new() parses one header at the current position, samples()   *)
(* yields exactly len() items, each Ok(word) or Err.                       *)
(*                                                                         *)
(* f32 values are records [m, e] standing for m * 2^e, kept canonical      *)
(* (m odd, or m = 0 and e = 0), with a 24-bit significand.                 *)
(***************************************************************************)
EXTENDS Integers, Sequences, FiniteSets, TLC

VARIABLES stream, phase, dec, conv, ret, out, sniffs, dataStart, cin, cout

vars == <<stream, phase, dec, conv, ret, out, sniffs, dataStart, cin, cout>>

(* ------------------------------ bounds --------------------------------- *)

MaxSamples == 3

MaxJunk == 1

MaxSniffs == 2

(* ------------------------------ f32 ------------------------------------ *)

MinI32 == -2147483647 - 1

MaxI32 == -(MinI32 + 1)

Abs(x) == IF x < 0 THEN -x ELSE x

\* the canonical record of m * 2^e: the factors of two moved to the exponent
F32Norm(m, e) ==
    IF m = 0 THEN [m |-> 0, e |-> 0]
    ELSE LET k == CHOOSE j \in 0..30 : m % 2^j = 0 /\ (m \div 2^j) % 2 = 1
         IN  [m |-> m \div 2^k, e |-> e + k]

F32Zero == [m |-> 0, e |-> 0]

F32One == [m |-> 1, e |-> 0]

F32MinusOne == [m |-> -1, e |-> 0]

\* number of bits of a magnitude below 2^25
BitLen(a) == CHOOSE n \in 0..25 : a < 2^n /\ (n = 0 \/ a >= 2^(n - 1))

\* x < y on canonical f32 values (no NaN among the modelled values)
F32LtPos(x, y) ==
    \* both strictly positive
    LET tx == x.e + BitLen(x.m)
        ty == y.e + BitLen(y.m)
    IN  IF tx # ty THEN tx < ty
        ELSE IF x.e >= y.e THEN x.m * 2^(x.e - y.e) < y.m
        ELSE x.m < y.m * 2^(y.e - x.e)

F32Neg(x) == [m |-> -x.m, e |-> x.e]

F32Lt(x, y) ==
    IF x.m <= 0 /\ y.m > 0 THEN x.m # 0 \/ y.m # 0
    ELSE IF x.m > 0 /\ y.m <= 0 THEN FALSE
    ELSE IF x.m > 0 THEN F32LtPos(x, y)
    ELSE IF x.m = 0 \/ y.m = 0 THEN x.m < y.m
    ELSE F32LtPos(F32Neg(y), F32Neg(x))

\* f32::clamp(self, min, max)
F32Clamp(x, lo, hi) ==
    IF F32Lt(x, lo) THEN lo ELSE IF F32Lt(hi, x) THEN hi ELSE x

\* `i as f32`: the nearest f32, ties to even (24-bit significand)
IntAsF32(i) ==
    IF i = MinI32 THEN [m |-> -1, e |-> 31]
    ELSE LET a == Abs(i)
             k == CHOOSE j \in 0..8 :
                      /\ a \div 2^j < 2^24
                      /\ (j = 0 \/ a \div 2^(j - 1) >= 2^24)
             q == a \div 2^k
             r == a % 2^k
             up == k > 0 /\ (2 * r > 2^k \/ (2 * r = 2^k /\ q % 2 = 1))
             mant == IF up THEN q + 1 ELSE q
         IN  F32Norm(IF i < 0 THEN -mant ELSE mant, k)

\* x / (2^n as f32): exact, no underflow in the range used
F32DivPow2(x, n) == IF x.m = 0 THEN x ELSE [m |-> x.m, e |-> x.e - n]

(* ------------------------ samples_converter.rs ------------------------- *)

i8_to_f32(i) == F32Clamp(F32DivPow2(IntAsF32(i), 7), F32MinusOne, F32One)

i16_to_f32(i) == F32Clamp(F32DivPow2(IntAsF32(i), 15), F32MinusOne, F32One)

\* i24_to_f32 scaling by 2^24
i24_to_f32_pow24(i) == F32Clamp(F32DivPow2(IntAsF32(i), 24), F32MinusOne, F32One)

i24_to_f32(i) == F32Clamp(F32DivPow2(IntAsF32(i), 23), F32MinusOne, F32One)

i32_to_f32(i) == F32Clamp(F32DivPow2(IntAsF32(i), 31), F32MinusOne, F32One)

(* ------------------- the byte stream and hound ------------------------- *)

\* the (encoding, bit depth) pairs SamplesIterator::next has an arm for
Supported ==
    {<<"Float", 32>>, <<"Int", 32>>, <<"Int", 16>>, <<"Int", 24>>, <<"Int", 8>>}

\* structurally valid pairs with no arm
Unsupported == {<<"Int", 12>>, <<"Float", 16>>}

WavSpec(channels, sample_rate, fb) ==
    [channels |-> channels, sample_rate |-> sample_rate,
     sample_format |-> fb[1], bits_per_sample |-> fb[2]]

\* the headers of the model: every pair at stereo 44100 Hz, and 16-bit PCM
\* also at mono 1000 Hz and with a sample rate of zero
WavSpecs ==
    {WavSpec(2, 44100, fb) : fb \in Supported \cup Unsupported}
    \cup {WavSpec(1, 1000, <<"Int", 16>>), WavSpec(2, 0, <<"Int", 16>>)}

\* raw sample words of each encoding: the extremes of a fixed-point width,
\* 0.5 and 1.5 as float words; ok = FALSE is a word whose read fails
\* the least and greatest signed values of a width, computed below 2^31
MinInt(bits) == (-(2^(bits - 2))) * 2

MaxInt(bits) == (2^(bits - 2) - 1) * 2 + 1

IntWords(bits) ==
    {[kind |-> "word", ok |-> TRUE, i |-> v, f |-> F32Zero] :
        v \in {MinInt(bits), MaxInt(bits)}}

FloatWords ==
    {[kind |-> "word", ok |-> TRUE, i |-> 0, f |-> x] :
        x \in {[m |-> 1, e |-> -1], [m |-> 3, e |-> -1]}}

BadWord == [kind |-> "word", ok |-> FALSE, i |-> 0, f |-> F32Zero]

Words(spec) ==
    (IF spec.sample_format = "Float" THEN FloatWords
     ELSE IntWords(spec.bits_per_sample)) \cup {BadWord}

Junk == [kind |-> "junk"]

Header(spec, n) == [kind |-> "hdr", spec |-> spec, num_samples |-> n]

SeqsUpTo(S, n) == UNION {[1..k -> S] : k \in 0..n}

JunkSeq(j) == [x \in 1..j |-> Junk]

\* a data chunk may be cut short of the length its header declares
DeclaredMax(ws) == IF Len(ws) < MaxSamples THEN Len(ws) + 1 ELSE Len(ws)

\* a header followed by its data chunk, after j junk tokens
WavStreams(j, spec) ==
    UNION {{JunkSeq(j) \o <<Header(spec, n)>> \o ws : n \in Len(ws)..DeclaredMax(ws)} :
            ws \in SeqsUpTo(Words(spec), MaxSamples)}

\* junk, then nothing or a header followed by its data chunk
Streams ==
    {JunkSeq(j) : j \in 0..MaxJunk}
    \cup UNION {WavStreams(j, spec) : j \in 0..MaxJunk, spec \in WavSpecs}

\* Seek::seek(SeekFrom::Current(0)) : the current position
SeekCurrent(s) == s.pos

\* Seek::seek(SeekFrom::Start(p))
SeekStart(s, p) == [s EXCEPT !.pos = p]

\* hound::WavReader::new : parses one header at the current position,
\* consuming what it read whether or not it is a header
WavReader_new(s) ==
    IF s.pos >= Len(s.data)
    THEN [ok |-> FALSE, stream |-> s, spec |-> 0, num_samples |-> 0]
    ELSE LET tok == s.data[s.pos + 1]
             s2 == [s EXCEPT !.pos = s.pos + 1]
         IN  IF tok.kind = "hdr"
             THEN [ok |-> TRUE, stream |-> s2, spec |-> tok.spec,
                   num_samples |-> tok.num_samples]
             ELSE [ok |-> FALSE, stream |-> s2, spec |-> 0, num_samples |-> 0]

\* hound::WavSamples::next : None after len() items, else Some(Ok(word)) or
\* Some(Err) for a word that cannot be read
WavSamples_next(r, s) ==
    IF r.samples_read >= r.num_samples
    THEN [some |-> FALSE, ok |-> FALSE, word |-> BadWord, reader |-> r, stream |-> s]
    ELSE LET r2 == [r EXCEPT !.samples_read = r.samples_read + 1]
         IN  IF s.pos >= Len(s.data)
             THEN [some |-> TRUE, ok |-> FALSE, word |-> BadWord,
                   reader |-> r2, stream |-> s]
             ELSE LET tok == s.data[s.pos + 1]
                      s2 == [s EXCEPT !.pos = s.pos + 1]
                  IN  [some |-> TRUE, ok |-> tok.kind = "word" /\ tok.ok,
                       word |-> IF tok.kind = "word" THEN tok ELSE BadWord,
                       reader |-> r2, stream |-> s2]

\* hound::WavReader::len : the number of samples the header declares
WavReader_len(r) == r.num_samples

(* ----------------------------- wav.rs ---------------------------------- *)

make_sample_format_str(sample_format, bits_per_sample) ==
    IF sample_format = "Float"
    THEN "FLOAT" \o ToString(bits_per_sample)
    ELSE "PCM" \o ToString(bits_per_sample)

\* is_wave without the seek back on the failure path
is_wave_no_reset_on_failure(s) ==
    LET stream_pos == SeekCurrent(s)
        r == WavReader_new(s)
    IN  IF ~r.ok
        THEN [result |-> FALSE, stream |-> r.stream]
        ELSE [result |-> TRUE, stream |-> SeekStart(r.stream, stream_pos)]

\* is_wave without the seek back on the success path
is_wave_no_reset_on_success(s) ==
    LET stream_pos == SeekCurrent(s)
        r == WavReader_new(s)
    IN  IF ~r.ok
        THEN [result |-> FALSE, stream |-> SeekStart(r.stream, stream_pos)]
        ELSE [result |-> TRUE, stream |-> r.stream]

\* is_wave : the verdict and the stream as it is left
is_wave(s) ==
    LET stream_pos == SeekCurrent(s)
        r == WavReader_new(s)
    IN  IF ~r.ok
        THEN [result |-> FALSE, stream |-> SeekStart(r.stream, stream_pos)]
        ELSE [result |-> TRUE, stream |-> SeekStart(r.stream, stream_pos)]

NoDec == [none |-> TRUE]

\* the decoder WavDecoder::new builds around the reader r
WavDecoder_of(r) ==
    [reader |-> [reader |-> [spec |-> r.spec, num_samples |-> r.num_samples,
                             samples_read |-> 0],
                 samples_read |-> 0],
     sample_rate |-> r.spec.sample_rate,
     channels |-> r.spec.channels,
     sample_format_str |->
         make_sample_format_str(r.spec.sample_format, r.spec.bits_per_sample)]

\* WavReader::new(data).unwrap() and the Ok(WavDecoder { .. }) after it
WavDecoder_new_unwrap(r) ==
    IF ~r.ok
    THEN [res |-> "Panic", stream |-> r.stream, dec |-> NoDec]
    ELSE [res |-> "Ok", stream |-> r.stream, dec |-> WavDecoder_of(r)]

\* WavDecoder::new once is_wave has answered w
WavDecoder_new_sniffed(w) ==
    IF ~w.result
    THEN [res |-> "Err", stream |-> w.stream, dec |-> NoDec]
    ELSE WavDecoder_new_unwrap(WavReader_new(w.stream))

\* WavDecoder::new : Err(data), Ok(decoder) owning the stream, or the panic
\* of unwrap() when the second parse fails
WavDecoder_new(s) == WavDecoder_new_sniffed(is_wave(s))

\* the value an arm of SamplesIterator::next maps a read word to
ArmValue(fb, w) ==
    IF fb = <<"Float", 32>> THEN (IF w.ok THEN w.word.f ELSE F32Zero)
    ELSE IF fb = <<"Int", 32>> THEN i32_to_f32(IF w.ok THEN w.word.i ELSE 0)
    ELSE IF fb = <<"Int", 16>> THEN i16_to_f32(IF w.ok THEN w.word.i ELSE 0)
    ELSE IF fb = <<"Int", 24>> THEN i24_to_f32(IF w.ok THEN w.word.i ELSE 0)
    ELSE i8_to_f32(IF w.ok THEN w.word.i ELSE 0)

\* the arm counting only the words that were read
SamplesIterator_arm_counts_ok_only(it, fb, w) ==
    IF w.some
    THEN [res |-> "Some", value |-> ArmValue(fb, w),
          it |-> [reader |-> w.reader,
                  samples_read |-> IF w.ok THEN it.samples_read + 1
                                   ELSE it.samples_read],
          stream |-> w.stream, msg |-> ""]
    ELSE [res |-> "None", value |-> F32Zero, it |-> [it EXCEPT !.reader = w.reader],
          stream |-> w.stream, msg |-> ""]

\* the arm ending the stream at a word that cannot be read
SamplesIterator_arm_stops_on_error(it, fb, w) ==
    IF w.some /\ w.ok
    THEN [res |-> "Some", value |-> ArmValue(fb, w),
          it |-> [reader |-> w.reader, samples_read |-> it.samples_read + 1],
          stream |-> w.stream, msg |-> ""]
    ELSE [res |-> "None", value |-> F32Zero, it |-> [it EXCEPT !.reader = w.reader],
          stream |-> w.stream, msg |-> ""]

\* an arm of SamplesIterator::next on what samples().next() returned:
\* .map(|value| { self.samples_read += 1; convert(value.unwrap_or(0)) })
SamplesIterator_arm(it, fb, w) ==
    IF w.some
    THEN [res |-> "Some", value |-> ArmValue(fb, w),
          it |-> [reader |-> w.reader, samples_read |-> it.samples_read + 1],
          stream |-> w.stream, msg |-> ""]
    ELSE [res |-> "None", value |-> F32Zero, it |-> [it EXCEPT !.reader = w.reader],
          stream |-> w.stream, msg |-> ""]

\* the message of the panic! in the last arm
UnimplementedMsg(fb) ==
    "Unimplemented wav spec: " \o fb[1] \o ", " \o ToString(fb[2])

\* the match with a catch-all arm that decodes instead of panicking
SamplesIterator_match_catch_all(it, s, fb) ==
    SamplesIterator_arm(it, fb, WavSamples_next(it.reader, s))

\* the match of SamplesIterator::next on (sample_format, bits_per_sample)
SamplesIterator_match(it, s, fb) ==
    IF fb \in Supported
    THEN SamplesIterator_arm(it, fb, WavSamples_next(it.reader, s))
    ELSE [res |-> "Panic", value |-> F32Zero, it |-> it, stream |-> s,
          msg |-> UnimplementedMsg(fb)]

\* SamplesIterator::next on iterator it over stream s
SamplesIterator_next(it, s) ==
    SamplesIterator_match(it, s, <<it.reader.spec.sample_format,
                                   it.reader.spec.bits_per_sample>>)

\* SamplesIterator::size_hint ; a u32 subtraction: an underflow panics in a
\* debug build and wraps in a release build, reported here as -1
SamplesIterator_size_hint(it) ==
    LET len == IF WavReader_len(it.reader) >= it.samples_read
               THEN WavReader_len(it.reader) - it.samples_read
               ELSE -1
    IN  <<len, <<"Some", len>>>>

\* the decoder's pull, given what its SamplesIterator returned
WavDecoder_forward(d, r) ==
    [res |-> r.res, value |-> r.value, dec |-> [d EXCEPT !.reader = r.it],
     stream |-> r.stream, msg |-> r.msg]

\* Iterator for WavDecoder : self.reader.next()
WavDecoder_next(d, s) == WavDecoder_forward(d, SamplesIterator_next(d.reader, s))

WavDecoder_size_hint(d) == SamplesIterator_size_hint(d.reader)

\* ExactSizeIterator::len for WavDecoder : the lower bound of size_hint
WavDecoder_len(d) == WavDecoder_size_hint(d)[1]

\* Source for WavDecoder
WavDecoder_current_frame_len(d) == <<"None">>

WavDecoder_channels(d) == d.channels

WavDecoder_sample_rate(d) == d.sample_rate

\* Some(ms), or a panic on the division by zero
WavDecoder_total_duration(d) ==
    IF d.channels * d.sample_rate = 0
    THEN <<"Panic", "attempt to divide by zero">>
    ELSE <<"Some", (WavDecoder_len(d) * 1000) \div (d.channels * d.sample_rate)>>

WavDecoder_sample_format_str(d) == d.sample_format_str

\* WavDecoder::into_inner : the stream, wherever the reader left it
WavDecoder_into_inner(d, s) == s

(* ------------------------ samples_converter.rs ------------------------- *)

\* cpal::Sample::from(&s) for the target type D = f32, the instance modelled:
\* to_f32 of an f32 is the value itself
CpalSample_from(x) == x

SamplesConverter_new(input) == [inner |-> input]

SamplesConverter_into_inner(c) == c.inner

\* .map(|s| CpalSample::from(&s)) on what the inner pull returned
SamplesConverter_map(c, r) ==
    [res |-> r.res,
     value |-> IF r.res = "Some" THEN CpalSample_from(r.value) ELSE r.value,
     conv |-> [c EXCEPT !.inner = r.dec], stream |-> r.stream, msg |-> r.msg]

\* Iterator for SamplesConverter : self.inner.next().map(..)
SamplesConverter_next(c, s) == SamplesConverter_map(c, WavDecoder_next(c.inner, s))

\* the Iterator default, as when size_hint is not forwarded
SamplesConverter_size_hint_default(c) == <<0, <<"None", 0>>>>

SamplesConverter_size_hint(c) == WavDecoder_size_hint(c.inner)

\* Source for SamplesConverter
SamplesConverter_current_frame_len(c) == WavDecoder_current_frame_len(c.inner)

SamplesConverter_channels(c) == WavDecoder_channels(c.inner)

SamplesConverter_sample_rate(c) == WavDecoder_sample_rate(c.inner)

SamplesConverter_total_duration(c) == WavDecoder_total_duration(c.inner)

SamplesConverter_sample_format_str(c) == WavDecoder_sample_format_str(c.inner)

(* --------------------------- the state machine ------------------------- *)

\* what the next read of the stream would yield
Peek(s) == IF s.pos < Len(s.data) THEN s.data[s.pos + 1] ELSE [kind |-> "eof"]

Ret(op, res, value, n, msg, s) ==
    [op |-> op, res |-> res, value |-> value, n |-> n, msg |-> msg,
     pos0 |-> s.pos, peek0 |-> Peek(s)]

NoInput == [fb |-> <<"Int", 8>>, v |-> 0]

Init ==
    /\ stream \in [data : Streams, pos : {0}]
    /\ phase = "handle"
    /\ dec = NoDec
    /\ conv = NoDec
    /\ ret = Ret("init", "", F32Zero, 0, "", [data |-> <<>>, pos |-> 0])
    /\ out = <<>>
    /\ sniffs = <<>>
    /\ dataStart = 0
    /\ cin = NoInput
    /\ cout = F32Zero

\* the caller reads one unit from the handle it owns
CallerRead ==
    /\ phase = "handle"
    /\ stream.pos < Len(stream.data)
    /\ stream' = [stream EXCEPT !.pos = stream.pos + 1]
    /\ ret' = Ret("read", "", F32Zero, 0, "", stream)
    /\ sniffs' = <<>>
    /\ UNCHANGED <<phase, dec, conv, out, dataStart, cin, cout>>

\* is_wave on the handle
Sniff ==
    /\ phase = "handle"
    /\ Len(sniffs) < MaxSniffs
    /\ \E w \in {is_wave(stream)} :
           /\ stream' = w.stream
           /\ sniffs' = Append(sniffs, [before |-> stream.pos, result |-> w.result,
                                        after |-> w.stream.pos])
           /\ ret' = Ret("is_wave", IF w.result THEN "true" ELSE "false",
                         F32Zero, 0, "", stream)
    /\ UNCHANGED <<phase, dec, conv, out, dataStart, cin, cout>>

\* WavDecoder::new(data)
New ==
    /\ phase = "handle"
    /\ \E r \in {WavDecoder_new(stream)} :
           /\ stream' = r.stream
           /\ ret' = Ret("new", r.res, F32Zero, 0, "", stream)
           /\ IF r.res = "Ok"
              THEN /\ phase' = "decoding"
                   /\ dec' = r.dec
                   /\ out' = <<>>
                   /\ dataStart' = r.stream.pos
              ELSE UNCHANGED <<phase, dec, out, dataStart>>
    /\ sniffs' = <<>>
    /\ UNCHANGED <<conv, cin, cout>>

\* one pull from the decoder
Next_ ==
    /\ phase = "decoding"
    /\ \E r \in {WavDecoder_next(dec, stream)} :
           /\ dec' = r.dec
           /\ stream' = r.stream
           /\ ret' = Ret("next", r.res, r.value, 0, r.msg, stream)
           /\ out' = IF r.res = "Some" THEN Append(out, r.value) ELSE out
    /\ UNCHANGED <<phase, conv, sniffs, dataStart, cin, cout>>

\* Source::total_duration on the decoder
TotalDuration ==
    /\ phase = "decoding"
    /\ \E d \in {WavDecoder_total_duration(dec)} :
           ret' = Ret("total_duration", d[1], F32Zero,
                      IF d[1] = "Some" THEN d[2] ELSE 0, "", stream)
    /\ UNCHANGED <<stream, phase, dec, conv, out, sniffs, dataStart, cin, cout>>

\* WavDecoder::into_inner
IntoInner ==
    /\ phase = "decoding"
    /\ stream' = WavDecoder_into_inner(dec, stream)
    /\ phase' = "handle"
    /\ dec' = NoDec
    /\ ret' = Ret("into_inner", "", F32Zero, 0, "", stream)
    /\ UNCHANGED <<conv, out, sniffs, dataStart, cin, cout>>

\* SamplesConverter::new(decoder)
Wrap ==
    /\ phase = "decoding"
    /\ conv' = SamplesConverter_new(dec)
    /\ dec' = NoDec
    /\ phase' = "wrapped"
    /\ ret' = Ret("sc_new", "", F32Zero, 0, "", stream)
    /\ UNCHANGED <<stream, out, sniffs, dataStart, cin, cout>>

\* one pull through the converter
ConvNext ==
    /\ phase = "wrapped"
    /\ \E r \in {SamplesConverter_next(conv, stream)} :
           /\ conv' = r.conv
           /\ stream' = r.stream
           /\ ret' = Ret("sc_next", r.res, r.value, 0, r.msg, stream)
           /\ out' = IF r.res = "Some" THEN Append(out, r.value) ELSE out
    /\ UNCHANGED <<phase, dec, sniffs, dataStart, cin, cout>>

\* Source::total_duration on the converter
ConvTotalDuration ==
    /\ phase = "wrapped"
    /\ \E d \in {SamplesConverter_total_duration(conv)} :
           ret' = Ret("sc_total_duration", d[1], F32Zero,
                      IF d[1] = "Some" THEN d[2] ELSE 0, "", stream)
    /\ UNCHANGED <<stream, phase, dec, conv, out, sniffs, dataStart, cin, cout>>

\* SamplesConverter::into_inner
Unwrap ==
    /\ phase = "wrapped"
    /\ dec' = SamplesConverter_into_inner(conv)
    /\ conv' = NoDec
    /\ phase' = "decoding"
    /\ ret' = Ret("sc_into_inner", "", F32Zero, 0, "", stream)
    /\ UNCHANGED <<stream, out, sniffs, dataStart, cin, cout>>

Next ==
    \/ CallerRead
    \/ Sniff
    \/ New
    \/ Next_
    \/ TotalDuration
    \/ IntoInner
    \/ Wrap
    \/ ConvNext
    \/ ConvTotalDuration
    \/ Unwrap

Spec == Init /\ [][Next]_vars

(* ---------------- the conversion arms on their own ---------------------- *)

\* raw values of a width: the extremes, zero, and the powers of two and
\* their neighbours
ProbeValues(bits) ==
    {MinInt(bits), MinInt(bits) + 1, -1, 0, 1, MaxInt(bits) - 1, MaxInt(bits)}
    \cup UNION {{2^k - 1, 2^k, 2^k + 1, 1 - 2^k, -(2^k), -(2^k) - 1} :
                  k \in 1..(bits - 2)}

ConvInputs ==
    UNION {{[fb |-> <<"Int", bits>>, v |-> v] : v \in ProbeValues(bits)} :
             bits \in {8, 16, 24, 32}}

ConvInit ==
    /\ stream = [data |-> <<>>, pos |-> 0]
    /\ phase = "conv_in"
    /\ dec = NoDec
    /\ conv = NoDec
    /\ ret = Ret("init", "", F32Zero, 0, "", [data |-> <<>>, pos |-> 0])
    /\ out = <<>>
    /\ sniffs = <<>>
    /\ dataStart = 0
    /\ cin \in ConvInputs
    /\ cout = F32Zero

\* the arm of SamplesIterator::next for cin.fb applied to the word cin.v
ApplyArm ==
    /\ phase = "conv_in"
    /\ cout' = ArmValue(cin.fb, [ok |-> TRUE, word |-> [i |-> cin.v, f |-> F32Zero]])
    /\ phase' = "conv_out"
    /\ UNCHANGED <<stream, dec, conv, ret, out, sniffs, dataStart, cin>>

ConvSpec == ConvInit /\ [][ApplyArm]_vars

(* ------------------------------ claims --------------------------------- *)

Constructed == phase \in {"decoding", "wrapped"}

\* the decoder, held directly or inside the converter
Inner == IF phase = "wrapped" THEN conv.inner ELSE dec

\* the header the decoder was built over, as the stream holds it
Hdr == stream.data[dataStart]

HdrFb == <<Hdr.spec.sample_format, Hdr.spec.bits_per_sample>>

Pulled == ret.op \in {"next", "sc_next"}

\* the word at sample position j is there and its read succeeds
RawOk(j) == dataStart + j <= Len(stream.data) /\ stream.data[dataStart + j].ok

\* C1: a failed WavDecoder::new returns Err with the stream at the position
\* it had before the attempt, so its next read yields what it would have
\* yielded; and new fails whenever no header stands at that position.
C1_FailedNewRestoresStream ==
    ret.op = "new" =>
        /\ (ret.peek0.kind # "hdr" => ret.res = "Err")
        /\ (ret.res = "Err" =>
               /\ phase = "handle"
               /\ stream.pos = ret.pos0
               /\ Peek(stream) = ret.peek0)

C1_Witness ==
    /\ ret.op = "new"
    /\ ret.res = "Err"
    /\ ret.pos0 > 0
    /\ ret.peek0.kind = "word"

\* C2: successive is_wave calls return the same boolean and each leaves the
\* stream at the position it had before the first call, on success and on
\* failure.
C2_SniffIdempotent ==
    \A i \in DOMAIN sniffs :
        /\ sniffs[i].after = sniffs[i].before
        /\ sniffs[i].before = sniffs[1].before
        /\ sniffs[i].result = sniffs[1].result
        /\ stream.pos = sniffs[1].before

\* two failed sniffs on junk that is directly followed by a header
C2_Witness ==
    /\ Len(sniffs) = 2
    /\ ~sniffs[2].result
    /\ Peek(stream).kind = "junk"
    /\ Peek([stream EXCEPT !.pos = stream.pos + 1]).kind = "hdr"

\* C3: with n samples declared and k pulls that returned a value, size_hint
\* is (n - k, Some(n - k)); the sample cursor equals k and never exceeds n.
C3_SizeHintExact ==
    Constructed =>
        LET n == Hdr.num_samples
            k == Len(out)
        IN  /\ WavDecoder_size_hint(Inner) = <<n - k, <<"Some", n - k>>>>
            /\ Inner.reader.samples_read = k
            /\ k <= n

\* end of stream reached after pulls of which one was substituted silence
C3_Witness ==
    /\ phase = "decoding"
    /\ ret.op = "next"
    /\ ret.res = "None"
    /\ Len(out) >= 2
    /\ \E j \in DOMAIN out : ~RawOk(j)

\* C4: total_duration is (total_samples * 1000) / (channels * sample_rate)
\* with total_samples the declared total, however many samples were pulled.
C4_TotalDurationOfTotal ==
    (Constructed /\ ret.op \in {"total_duration", "sc_total_duration"}
        /\ ret.res = "Some") =>
        ret.n = (Hdr.num_samples * 1000) \div (Hdr.spec.channels * Hdr.spec.sample_rate)

InUnitRange(x) == ~F32Lt(x, F32MinusOne) /\ ~F32Lt(F32One, x)

\* C5: every sample value the decoder produces lies in [-1.0, 1.0].
C5_SamplesInUnitRange ==
    \A j \in DOMAIN out : InUnitRange(out[j])

\* what a clean read of the word at sample position j decodes to
Clean(j) ==
    LET w == stream.data[dataStart + j]
    IN  IF HdrFb = <<"Float", 32>> THEN w.f
        ELSE IF HdrFb = <<"Int", 32>> THEN i32_to_f32(w.i)
        ELSE IF HdrFb = <<"Int", 24>> THEN i24_to_f32(w.i)
        ELSE IF HdrFb = <<"Int", 16>> THEN i16_to_f32(w.i)
        ELSE i8_to_f32(w.i)

\* C6: a word whose read fails yields 0.0 at its position, every other
\* position yields what a clean read yields, the stream still ends after
\* exactly n values, and no pull panics.
C6_CorruptWordIsSilence ==
    (Constructed /\ HdrFb \in Supported) =>
        /\ Pulled => ret.res # "Panic"
        /\ \A j \in DOMAIN out : out[j] = IF RawOk(j) THEN Clean(j) ELSE F32Zero
        /\ (Pulled /\ ret.res = "None") => Len(out) = Hdr.num_samples

\* end of stream after three values, the middle one a failed word between
\* two good, non-zero words
C6_Witness ==
    /\ Constructed
    /\ Pulled
    /\ ret.res = "None"
    /\ Len(out) = 3
    /\ RawOk(1) /\ ~RawOk(2) /\ RawOk(3)
    /\ out[1] # F32Zero /\ out[2] = F32Zero /\ out[3] # F32Zero

\* C7: WavDecoder::new rejects a header that declares zero channels or a
\* zero sample rate, so no decoder exists whose total_duration divides by
\* zero.
C7_DegenerateSpecRejected ==
    /\ (ret.op = "new" /\ ret.peek0.kind = "hdr"
          /\ ret.peek0.spec.channels * ret.peek0.spec.sample_rate = 0)
       => ret.res = "Err"
    /\ Constructed => Inner.channels * Inner.sample_rate # 0
    /\ ret.op \in {"total_duration", "sc_total_duration"} => ret.res # "Panic"

WithinRounding(x, v, bits) ==
    LET t == x.e + (bits - 1)
        nx == IF t = 31 THEN MinI32 ELSE -(Abs(x.m) * 2^t)
        nv == IF v > 0 THEN -v ELSE v
        slack == -((nv + 2^24 - 1) \div 2^24)
    IN  IF v = 0 THEN x = F32Zero
        ELSE /\ t >= 0
             /\ (t = 31 => Abs(x.m) = 1)
             /\ (v > 0 => x.m > 0) /\ (v < 0 => x.m < 0)
             /\ Abs(nx - nv) <= slack

\* C9: an N-bit fixed-point word v decodes to v / 2^(N-1) within f32
\* rounding; the minimum maps to -1.0, zero to 0.0 and the maximum to
\* (2^(N-1) - 1) / 2^(N-1).
C9_FixedPointScaling ==
    phase = "conv_out" =>
        LET bits == cin.fb[2]
            v == cin.v
        IN  /\ WithinRounding(cout, v, bits)
            /\ (v = MinInt(bits) => cout = F32MinusOne)
            /\ (v = 0 => cout = F32Zero)
            /\ (v = MaxInt(bits) /\ bits < 32 =>
                   cout = F32Norm(MaxInt(bits), -(bits - 1)))

C9_Witness ==
    /\ phase = "conv_out"
    /\ cin = [fb |-> <<"Int", 16>>, v |-> 32767]
    /\ cout = [m |-> 32767, e |-> -15]

\* C10: over a header whose (encoding, bit depth) pair has no arm, every
\* pull panics with a message naming the encoding and the bit depth, no
\* value and no end of stream is ever returned, and the sample cursor stays
\* at zero.
C10_UnsupportedFormatPanics ==
    (Constructed /\ HdrFb \notin Supported) =>
        /\ out = <<>>
        /\ Inner.reader.samples_read = 0
        /\ Pulled =>
              /\ ret.res = "Panic"
              /\ ret.msg = "Unimplemented wav spec: " \o Hdr.spec.sample_format
                              \o ", " \o ToString(Hdr.spec.bits_per_sample)

C10_Witness ==
    /\ phase = "decoding"
    /\ ret.op = "next"
    /\ ret.res = "Panic"
    /\ Hdr.num_samples > 0
    /\ ret.msg = "Unimplemented wav spec: Int, 12"

====
